---- MODULE Spec2Model ----
(***************************************************************************)
(* A model of github.com/soulteary/version-kit: the Info record and its    *)
(* derived views (version.go), the Builder, and the handlers and           *)
(* middleware that expose an Info over net/http and Fiber.                 *)
(*                                                                         *)
(* Go strings are modelled as TLA+ strings; Len, \o, SubSeq, Head and Tail *)
(* act on them byte by byte, as Go's len, + and s[a:b] do.                 *)
(***************************************************************************)
EXTENDS Integers, Sequences, FiniteSets, TLC

VARIABLES
    Version,      \* package variable Version
    Commit,       \* package variable Commit
    BuildDate,    \* package variable BuildDate
    Branch,       \* package variable Branch
    heap,         \* the Info objects that are reachable, by address
    info,         \* the caller's variable holding a *Info (NULL when unset)
    builder,      \* the caller's *Builder: the address in its info field
    args,         \* the arguments the handler's constructor was called with
    handler,      \* the handler closure the caller holds
    req,          \* the last request the handler was given
    resp,         \* the response of the last request served
    inflight,     \* the requests being served concurrently, by slot
    ret           \* the last method call: its name, its result and, for a
                  \* setter of the Builder, its argument

vars == <<Version, Commit, BuildDate, Branch, heap, info, builder, args, handler, req, resp,
          inflight, ret>>

(***************************************************************************)
(* Bounds of the model.                                                    *)
(***************************************************************************)
\* the number of Info objects that can be live at once
MaxInfos == 3
\* the number of requests that can be in flight at once
MaxRequests == 2
\* the longest commit drawn as a prefix of a hash
MaxCommitLen == 9

NULL == 0
Addr == 1..MaxInfos

(***************************************************************************)
(* runtime.Version(), runtime.GOOS/GOARCH and runtime.Compiler of the      *)
(* executing environment.                                                  *)
(***************************************************************************)
RuntimeVersion == "go1.25"
RuntimePlatform == "linux" \o "/" \o "amd64"
RuntimeCompiler == "gc"

(***************************************************************************)
(* String helpers.                                                         *)
(***************************************************************************)
CharAt(s, k) == SubSeq(s, k, k)

\* Go's s[:n]; the callers guard it with len(s) > n
Slice(s, n) == SubSeq(s, 1, n)

LowerAlpha == "abcdefghijklmnopqrstuvwxyz"

UpperAlpha == "ABCDEFGHIJKLMNOPQRSTUVWXYZ"

\* the upper-case letter of each lower-case letter, and the reverse
UpperOf == [c \in {CharAt(LowerAlpha, k) : k \in 1..26} |->
               CharAt(UpperAlpha, CHOOSE k \in 1..26 : CharAt(LowerAlpha, k) = c)]

LowerOf == [c \in {CharAt(UpperAlpha, k) : k \in 1..26} |->
               CharAt(LowerAlpha, CHOOSE k \in 1..26 : CharAt(UpperAlpha, k) = c)]

ToUpper(c) == IF c \in DOMAIN UpperOf THEN UpperOf[c] ELSE c

ToLower(c) == IF c \in DOMAIN LowerOf THEN LowerOf[c] ELSE c

\* s has p at position k
HasPrefixAt(s, k, p) == k + Len(p) - 1 <= Len(s) /\ SubSeq(s, k, k + Len(p) - 1) = p

(***************************************************************************)
(* Info and its constructors.                                              *)
(***************************************************************************)
New(version, commit, buildDate) ==
    [Version   |-> version,
     Commit    |-> commit,
     BuildDate |-> buildDate,
     Branch    |-> "",
     GoVersion |-> RuntimeVersion,
     Platform  |-> RuntimePlatform,
     Compiler  |-> RuntimeCompiler]

NewWithBranch(version, commit, buildDate, branch) ==
    [New(version, commit, buildDate) EXCEPT !.Branch = branch]

\* Default leaving the branch out
Default_NoBranch == New(Version, Commit, BuildDate)

Default == NewWithBranch(Version, Commit, BuildDate, Branch)

(***************************************************************************)
(* Info methods.                                                           *)
(***************************************************************************)
\* String cutting the commit one byte late
String_CutsAt8(i) ==
    IF i.Commit # "" /\ i.Commit # "unknown"
    THEN LET shortCommit == IF Len(i.Commit) > 8 THEN Slice(i.Commit, 8) ELSE i.Commit
         IN  i.Version \o " (" \o shortCommit \o ")"
    ELSE i.Version

String(i) ==
    IF i.Commit # "" /\ i.Commit # "unknown"
    THEN LET shortCommit == IF Len(i.Commit) > 7 THEN Slice(i.Commit, 7) ELSE i.Commit
         IN  i.Version \o " (" \o shortCommit \o ")"
    ELSE i.Version

\* Full printing the short commit on the Commit line
Full_ShortCommit(i) ==
    LET r1 == "Version:    " \o i.Version \o "\n"
        r2 == IF i.Commit # "" /\ i.Commit # "unknown"
              THEN r1 \o "Commit:     "
                      \o (IF Len(i.Commit) > 7 THEN SubSeq(i.Commit, 1, 7) ELSE i.Commit)
                      \o "\n"
              ELSE r1
        r3 == IF i.Branch # ""
              THEN r2 \o "Branch:     " \o i.Branch \o "\n" ELSE r2
        r4 == IF i.BuildDate # "" /\ i.BuildDate # "unknown"
              THEN r3 \o "Built:      " \o i.BuildDate \o "\n" ELSE r3
    IN  r4 \o "Go version: " \o i.GoVersion \o "\n"
           \o "Platform:   " \o i.Platform \o "\n"
           \o "Compiler:   " \o i.Compiler \o "\n"

Full(i) ==
    LET r1 == "Version:    " \o i.Version \o "\n"
        r2 == IF i.Commit # "" /\ i.Commit # "unknown"
              THEN r1 \o "Commit:     " \o i.Commit \o "\n" ELSE r1
        r3 == IF i.Branch # ""
              THEN r2 \o "Branch:     " \o i.Branch \o "\n" ELSE r2
        r4 == IF i.BuildDate # "" /\ i.BuildDate # "unknown"
              THEN r3 \o "Built:      " \o i.BuildDate \o "\n" ELSE r3
    IN  r4 \o "Go version: " \o i.GoVersion \o "\n"
           \o "Platform:   " \o i.Platform \o "\n"
           \o "Compiler:   " \o i.Compiler \o "\n"

\* Map testing the optional fields for emptiness only
Map_KeepsUnknown(i) ==
    LET keys == {"version", "go_version", "platform", "compiler"}
                \cup (IF i.Commit # "" THEN {"commit"} ELSE {})
                \cup (IF i.Branch # "" THEN {"branch"} ELSE {})
                \cup (IF i.BuildDate # "" THEN {"build_date"} ELSE {})
    IN  [k \in keys |->
            CASE k = "version"    -> i.Version
              [] k = "go_version" -> i.GoVersion
              [] k = "platform"   -> i.Platform
              [] k = "compiler"   -> i.Compiler
              [] k = "commit"     -> i.Commit
              [] k = "branch"     -> i.Branch
              [] k = "build_date" -> i.BuildDate]

\* a Go map[string]string: a function from the keys present to their values
Map(i) ==
    LET keys == {"version", "go_version", "platform", "compiler"}
                \cup (IF i.Commit # "" /\ i.Commit # "unknown" THEN {"commit"} ELSE {})
                \cup (IF i.Branch # "" THEN {"branch"} ELSE {})
                \cup (IF i.BuildDate # "" /\ i.BuildDate # "unknown" THEN {"build_date"} ELSE {})
    IN  [k \in keys |->
            CASE k = "version"    -> i.Version
              [] k = "go_version" -> i.GoVersion
              [] k = "platform"   -> i.Platform
              [] k = "compiler"   -> i.Compiler
              [] k = "commit"     -> i.Commit
              [] k = "branch"     -> i.Branch
              [] k = "build_date" -> i.BuildDate]

\* Validate also requiring a commit
Validate_RequiresCommit(i) ==
    IF i.Version = "" \/ i.Commit = "" THEN "version is required" ELSE "nil"

\* the error's message, or "nil"
Validate(i) == IF i.Version = "" THEN "version is required" ELSE "nil"

\* IsDev without the "development" alternative
IsDev_NoDevelopment(i) == i.Version = "dev" \/ i.Version = ""

IsDev(i) == i.Version = "dev" \/ i.Version = "development" \/ i.Version = ""

\* ShortCommit cutting the commit one byte early
ShortCommit_CutsAt6(i) ==
    IF i.Commit = "" \/ i.Commit = "unknown" THEN ""
    ELSE IF Len(i.Commit) > 6 THEN Slice(i.Commit, 6)
    ELSE i.Commit

\* ShortCommit without the "unknown" sentinel
ShortCommit_NoSentinel(i) ==
    IF i.Commit = "" THEN ""
    ELSE IF Len(i.Commit) > 7 THEN Slice(i.Commit, 7)
    ELSE i.Commit

ShortCommit(i) ==
    IF i.Commit = "" \/ i.Commit = "unknown" THEN ""
    ELSE IF Len(i.Commit) > 7 THEN Slice(i.Commit, 7)
    ELSE i.Commit

(***************************************************************************)
(* time.Parse, for the layouts BuildTimestamp tries.  A time.Time is the   *)
(* instant (days since 0001-01-01 UTC, seconds and nanoseconds in that     *)
(* day) and the offset of its zone in seconds; the zero Time is the first  *)
(* instant in UTC.  Abbreviated zone names are looked up in time.Local,    *)
(* which is UTC here, so an abbreviation other than UTC gives offset 0.    *)
(***************************************************************************)
ZeroTime == [day |-> 0, sec |-> 0, nsec |-> 0, offset |-> 0]

IsZero(t) == t.day = 0 /\ t.sec = 0 /\ t.nsec = 0

Digits == "0123456789"

DigitOf == [c \in {CharAt(Digits, k) : k \in 1..10} |->
               (CHOOSE k \in 1..10 : CharAt(Digits, k) = c) - 1]

isDigit(s, k) == k <= Len(s) /\ CharAt(s, k) \in DOMAIN DigitOf

\* a failed parse step
errBad == [ok |-> FALSE, val |-> 0, next |-> 0]

\* getnum: one or two digits at k (two when fixed), and where the rest starts
getnum(s, k, fixed) ==
    IF ~isDigit(s, k) THEN errBad
    ELSE IF ~isDigit(s, k + 1)
    THEN (IF fixed THEN errBad
          ELSE [ok |-> TRUE, val |-> DigitOf[CharAt(s, k)], next |-> k + 1])
    ELSE [ok |-> TRUE, val |-> 10 * DigitOf[CharAt(s, k)] + DigitOf[CharAt(s, k + 1)],
          next |-> k + 2]

\* atoi of the n bytes at k, all of which must be digits
RECURSIVE atoi(_, _, _, _)
atoi(s, k, n, acc) ==
    IF n = 0 THEN [ok |-> TRUE, val |-> acc, next |-> k]
    ELSE IF ~isDigit(s, k) THEN errBad
    ELSE atoi(s, k + 1, n - 1, 10 * acc + DigitOf[CharAt(s, k)])

\* the number of digits from k on
RECURSIVE digitRun(_, _)
digitRun(s, k) == IF isDigit(s, k) THEN 1 + digitRun(s, k + 1) ELSE 0

RECURSIVE pow10(_)
pow10(n) == IF n = 0 THEN 1 ELSE 10 * pow10(n - 1)

\* lookup: the index of the name in tab that s has at k, compared without
\* regard to case; 0 when there is none
RECURSIVE foldCase(_)
foldCase(s) == IF s = "" THEN "" ELSE ToLower(Head(s)) \o foldCase(Tail(s))

lookup(tab, s, k) ==
    LET hits == {j \in 1..Len(tab) :
                    /\ k + Len(tab[j]) - 1 <= Len(s)
                    /\ foldCase(SubSeq(s, k, k + Len(tab[j]) - 1)) = foldCase(tab[j])}
    IN  IF hits = {} THEN 0 ELSE CHOOSE j \in hits : \A h \in hits : j <= h

shortDayNames == <<"Sun", "Mon", "Tue", "Wed", "Thu", "Fri", "Sat">>

shortMonthNames ==
    <<"Jan", "Feb", "Mar", "Apr", "May", "Jun", "Jul", "Aug", "Sep", "Oct", "Nov", "Dec">>

isLeap(year) == year % 4 = 0 /\ (year % 100 # 0 \/ year % 400 = 0)

daysIn(month, year) ==
    IF month = 2 THEN (IF isLeap(year) THEN 29 ELSE 28)
    ELSE IF month \in {4, 6, 9, 11} THEN 30 ELSE 31

daysBefore == <<0, 31, 59, 90, 120, 151, 181, 212, 243, 273, 304, 334>>

\* time.Date(year, month, day, hour, min, sec, nsec, UTC) moved back by the
\* zone's offset: the instant of a wall clock reading in that zone
Date(year, month, day, hour, min, sec, nsec, offset) ==
    LET y     == year - 1
        days  == 365 * y + (y \div 4) - (y \div 100) + (y \div 400)
                 + daysBefore[month] + (IF month > 2 /\ isLeap(year) THEN 1 ELSE 0)
                 + day - 1
        clock == hour * 3600 + min * 60 + sec - offset
    IN  [day |-> days + (clock \div 86400), sec |-> clock % 86400,
         nsec |-> nsec, offset |-> offset]

\* the layout elements that occur in the layouts below
stdChunks == <<"2006", "01", "02", "15", "04", "05", "Z07:00", "-0700", "Mon", "Jan", "MST">>

\* nextStdChunk, repeated: the layout cut into its elements and the literal
\* bytes between them
RECURSIVE nextStdChunks(_, _)
nextStdChunks(layout, k) ==
    IF k > Len(layout) THEN << >>
    ELSE LET j == lookup(stdChunks, layout, k)
         IN  IF j # 0 /\ HasPrefixAt(layout, k, stdChunks[j])
             THEN <<stdChunks[j]>> \o nextStdChunks(layout, k + Len(stdChunks[j]))
             ELSE <<CharAt(layout, k)>> \o nextStdChunks(layout, k + 1)

UpperLetters == {CharAt(UpperAlpha, k) : k \in 1..26}

\* the number of upper-case letters from k on, counted up to 6
RECURSIVE upperRun(_, _, _)
upperRun(s, k, n) ==
    IF n < 6 /\ k <= Len(s) /\ CharAt(s, k) \in UpperLetters
    THEN upperRun(s, k + 1, n + 1) ELSE n

\* parseSignedOffset: the length of a sign and an hour of at most 23 at k,
\* 0 when there is none
parseSignedOffset(s, k) ==
    IF k > Len(s) \/ CharAt(s, k) \notin {"+", "-"} THEN 0
    ELSE LET run == digitRun(s, k + 1)
         IN  IF run = 0 \/ run > 9 THEN 0
             ELSE IF atoi(s, k + 1, run, 0).val > 23 THEN 0
             ELSE 1 + run

\* parseTimeZone: the length of the zone abbreviation at k, 0 when there is
\* none
parseTimeZone(s, k) ==
    IF k + 2 > Len(s) THEN 0
    ELSE IF HasPrefixAt(s, k, "ChST") \/ HasPrefixAt(s, k, "MeST") THEN 4
    ELSE IF HasPrefixAt(s, k, "GMT") THEN 3 + parseSignedOffset(s, k + 3)
    ELSE IF CharAt(s, k) \in {"+", "-"} THEN parseSignedOffset(s, k)
    ELSE LET nUpper == upperRun(s, k, 0)
         IN  CASE nUpper = 5 -> IF CharAt(s, k + 4) = "T" THEN 5 ELSE 0
               [] nUpper = 4 -> IF CharAt(s, k + 3) = "T" \/ HasPrefixAt(s, k, "WITA")
                                THEN 4 ELSE 0
               [] nUpper = 3 -> 3
               [] OTHER      -> 0

\* what Parse has read so far: the fields, the offset by which the wall
\* clock is ahead of UTC, the offset of the zone of the result, and the
\* position of the rest of the value
parseStart ==
    [ok |-> TRUE, next |-> 1, year |-> 0, month |-> 1, day |-> 1,
     hour |-> 0, min |-> 0, sec |-> 0, nsec |-> 0, shift |-> 0, offset |-> 0]

\* a numeric zone: sign, two digits of hours, sep, two digits of minutes
numericZone(s, p, sep) ==
    LET k  == p.next
        n  == 5 + Len(sep)
        hr == getnum(s, k + 1, TRUE)
        mm == getnum(s, k + 3 + Len(sep), TRUE)
    IN  IF k + n - 1 > Len(s) THEN [p EXCEPT !.ok = FALSE]
        ELSE IF sep # "" /\ CharAt(s, k + 3) # sep THEN [p EXCEPT !.ok = FALSE]
        ELSE IF ~hr.ok \/ ~mm.ok \/ hr.val > 24 \/ mm.val > 60
             \/ CharAt(s, k) \notin {"+", "-"} THEN [p EXCEPT !.ok = FALSE]
        ELSE LET z == (hr.val * 60 + mm.val) * 60 * (IF CharAt(s, k) = "-" THEN -1 ELSE 1)
             IN  [p EXCEPT !.shift = z, !.offset = z, !.next = k + n]

\* a fraction of a second after the seconds, which Parse accepts although
\* the layout has none
fraction(s, p) ==
    LET k == p.next
    IN  IF k + 1 <= Len(s) /\ CharAt(s, k) \in {".", ","} /\ isDigit(s, k + 1)
        THEN LET run  == digitRun(s, k + 1)
                 used == IF run > 9 THEN 9 ELSE run
             IN  [p EXCEPT !.nsec = atoi(s, k + 1, used, 0).val * pow10(9 - used),
                           !.next = k + 1 + run]
        ELSE p

\* one element of the layout read from the value
parseChunk(std, s, p) ==
    LET k    == p.next
        bad  == [p EXCEPT !.ok = FALSE]
        two  == getnum(s, k, TRUE)
        hh   == getnum(s, k, FALSE)
    IN  CASE std = "2006" ->
               LET y == IF k + 3 <= Len(s) THEN atoi(s, k, 4, 0) ELSE errBad
               IN  IF y.ok THEN [p EXCEPT !.year = y.val, !.next = y.next] ELSE bad
          [] std = "01" ->
               IF two.ok /\ two.val >= 1 /\ two.val <= 12
               THEN [p EXCEPT !.month = two.val, !.next = two.next] ELSE bad
          [] std = "02" ->
               IF two.ok THEN [p EXCEPT !.day = two.val, !.next = two.next] ELSE bad
          [] std = "15" ->
               IF hh.ok /\ hh.val < 24
               THEN [p EXCEPT !.hour = hh.val, !.next = hh.next] ELSE bad
          [] std = "04" ->
               IF two.ok /\ two.val < 60
               THEN [p EXCEPT !.min = two.val, !.next = two.next] ELSE bad
          [] std = "05" ->
               IF two.ok /\ two.val < 60
               THEN fraction(s, [p EXCEPT !.sec = two.val, !.next = two.next]) ELSE bad
          [] std = "Z07:00" ->
               IF k <= Len(s) /\ CharAt(s, k) = "Z" THEN [p EXCEPT !.next = k + 1]
               ELSE numericZone(s, p, ":")
          [] std = "-0700" -> numericZone(s, p, "")
          [] std = "Mon" ->
               IF lookup(shortDayNames, s, k) # 0 THEN [p EXCEPT !.next = k + 3] ELSE bad
          [] std = "Jan" ->
               LET m == lookup(shortMonthNames, s, k)
               IN  IF m # 0 THEN [p EXCEPT !.month = m, !.next = k + 3] ELSE bad
          [] std = "MST" ->
               IF HasPrefixAt(s, k, "UTC") THEN [p EXCEPT !.next = k + 3]
               ELSE LET n == parseTimeZone(s, k)
                    IN  IF n = 0 THEN bad
                        ELSE [p EXCEPT !.next = k + n,
                                       !.offset = IF n > 3 /\ HasPrefixAt(s, k, "GMT")
                                                  THEN atoi(s, k + 4, n - 4, 0).val * 3600
                                                       * (IF CharAt(s, k + 3) = "-" THEN -1 ELSE 1)
                                                  ELSE 0]
          [] OTHER ->
               IF HasPrefixAt(s, k, std) THEN [p EXCEPT !.next = k + Len(std)] ELSE bad

RECURSIVE parseChunks(_, _, _)
parseChunks(chunks, s, p) ==
    IF chunks = << >> \/ ~p.ok THEN p
    ELSE parseChunks(Tail(chunks), s, parseChunk(Head(chunks), s, p))

\* time.Parse(layout, value): err == nil, and the Time
Parse(layout, value) ==
    LET p == parseChunks(nextStdChunks(layout, 1), value, parseStart)
    IN  IF ~p.ok \/ p.next # Len(value) + 1
           \/ p.day < 1 \/ p.day > daysIn(p.month, p.year)
        THEN [ok |-> FALSE, t |-> ZeroTime]
        ELSE [ok |-> TRUE,
              t  |-> [Date(p.year, p.month, p.day, p.hour, p.min, p.sec, p.nsec, p.shift)
                         EXCEPT !.offset = p.offset]]

RFC3339 == "2006-01-02T15:04:05Z07:00"

RFC1123 == "Mon, 02 Jan 2006 15:04:05 MST"

RFC1123Z == "Mon, 02 Jan 2006 15:04:05 -0700"

formats ==
    <<"2006-01-02T15:04:05Z07:00", "2006-01-02 15:04:05", "2006-01-02", RFC1123, RFC1123Z>>

\* BuildTimestamp without the bare date among its formats
BuildTimestamp_NoBareDate(i) ==
    IF i.BuildDate = "" \/ i.BuildDate = "unknown" THEN ZeroTime
    ELSE IF Parse(RFC3339, i.BuildDate).ok THEN Parse(RFC3339, i.BuildDate).t
    ELSE LET fs == <<"2006-01-02T15:04:05Z07:00", "2006-01-02 15:04:05", RFC1123, RFC1123Z>>
             parsed == {j \in 1..Len(fs) : Parse(fs[j], i.BuildDate).ok}
         IN  IF parsed = {} THEN ZeroTime
             ELSE Parse(fs[CHOOSE j \in parsed : \A k \in parsed : j <= k], i.BuildDate).t

BuildTimestamp(i) ==
    IF i.BuildDate = "" \/ i.BuildDate = "unknown" THEN ZeroTime
    ELSE IF Parse(RFC3339, i.BuildDate).ok THEN Parse(RFC3339, i.BuildDate).t
    ELSE LET parsed == {j \in 1..Len(formats) : Parse(formats[j], i.BuildDate).ok}
         IN  IF parsed = {} THEN ZeroTime
             ELSE Parse(formats[CHOOSE j \in parsed : \A k \in parsed : j <= k],
                        i.BuildDate).t

(***************************************************************************)
(* encoding/json as the Info struct's tags drive it: the fields in         *)
(* declaration order, "version" always, the others under omitempty (left   *)
(* out when the string is empty).                                          *)
(***************************************************************************)
\* an encoder that writes a double quote as it is
EscapeChar_KeepsQuote(c) ==
    CASE c = "\\" -> "\\\\"
      [] c = "\n" -> "\\n"
      [] c = "<"  -> "\\u003c"
      [] c = ">"  -> "\\u003e"
      [] c = "&"  -> "\\u0026"
      [] OTHER    -> c

\* the escape json.Marshal writes for one byte of a string
EscapeChar(c) ==
    CASE c = "\"" -> "\\\""
      [] c = "\\" -> "\\\\"
      [] c = "\n" -> "\\n"
      [] c = "<"  -> "\\u003c"
      [] c = ">"  -> "\\u003e"
      [] c = "&"  -> "\\u0026"
      [] OTHER    -> c

RECURSIVE Escape(_)
Escape(s) == IF s = "" THEN "" ELSE EscapeChar(Head(s)) \o Escape(Tail(s))

Quote(s) == "\"" \o Escape(s) \o "\""

\* the struct fields json.Marshal emits, as <<key, value>> in declaration order
InfoFields(i) ==
    LET all == << <<"version", i.Version>>, <<"commit", i.Commit>>,
                  <<"build_date", i.BuildDate>>, <<"branch", i.Branch>>,
                  <<"go_version", i.GoVersion>>, <<"platform", i.Platform>>,
                  <<"compiler", i.Compiler>> >>
    IN  SelectSeq(all, LAMBDA f : f[1] = "version" \/ f[2] # "")

RECURSIVE JoinFields(_, _, _)
JoinFields(fs, colon, comma) ==
    IF fs = << >> THEN ""
    ELSE Quote(fs[1][1]) \o colon \o Quote(fs[1][2])
         \o (IF Len(fs) > 1 THEN comma ELSE "")
         \o JoinFields(Tail(fs), colon, comma)

\* json.Marshal(i)
Marshal(i) == "{" \o JoinFields(InfoFields(i), ":", ",") \o "}"

\* json.MarshalIndent(i, "", "  ")
MarshalIndent(i) == "{\n  " \o JoinFields(InfoFields(i), ": ", ",\n  ") \o "\n}"

\* marshalling a struct of strings has no error path, so the fallback
\* of JSON and JSONPretty is never taken
JSON(i) == Marshal(i)

JSONPretty(i) == MarshalIndent(i)

(***************************************************************************)
(* json.Unmarshal of an object of string members: the members in the order *)
(* of the text, as <<key, value>>, or "invalid" when the text is not one.  *)
(***************************************************************************)
IsSpace(c) == c = " " \/ c = "\n" \/ c = "\t" \/ c = "\r"

RECURSIVE SkipSpace(_, _)
SkipSpace(s, k) ==
    IF k <= Len(s) /\ IsSpace(CharAt(s, k)) THEN SkipSpace(s, k + 1) ELSE k

Unescape(e) ==
    CASE e = "\\\""     -> "\""
      [] e = "\\\\"     -> "\\"
      [] e = "\\n"      -> "\n"
      [] e = "\\u003c"  -> "<"
      [] e = "\\u003e"  -> ">"
      [] e = "\\u0026"  -> "&"
      [] OTHER          -> "invalid"

\* scans a string literal whose opening quote is at k - 1; yields the
\* decoded string and the position after the closing quote (0: malformed)
RECURSIVE ScanString(_, _, _)
ScanString(s, k, acc) ==
    IF k > Len(s) THEN [val |-> acc, next |-> 0]
    ELSE LET c == CharAt(s, k) IN
         IF c = "\"" THEN [val |-> acc, next |-> k + 1]
         ELSE IF c # "\\" THEN ScanString(s, k + 1, acc \o c)
         ELSE IF k + 1 > Len(s) THEN [val |-> acc, next |-> 0]
         ELSE LET n == IF CharAt(s, k + 1) = "u" THEN 6 ELSE 2 IN
              IF k + n - 1 > Len(s) \/ Unescape(SubSeq(s, k, k + n - 1)) = "invalid"
              THEN [val |-> acc, next |-> 0]
              ELSE ScanString(s, k + n, acc \o Unescape(SubSeq(s, k, k + n - 1)))

Invalid == [ok |-> FALSE, members |-> << >>]

RECURSIVE ScanMembers(_, _, _)
ScanMembers(s, k, acc) ==
    LET k1 == SkipSpace(s, k) IN
    IF k1 > Len(s) \/ CharAt(s, k1) # "\"" THEN Invalid
    ELSE LET key == ScanString(s, k1 + 1, "")
             k2  == SkipSpace(s, key.next) IN
         IF key.next = 0 \/ k2 > Len(s) \/ CharAt(s, k2) # ":" THEN Invalid
         ELSE LET k3 == SkipSpace(s, k2 + 1) IN
              IF k3 > Len(s) \/ CharAt(s, k3) # "\"" THEN Invalid
              ELSE LET val == ScanString(s, k3 + 1, "")
                       k4  == SkipSpace(s, val.next)
                       got == Append(acc, <<key.val, val.val>>) IN
                   IF val.next = 0 \/ k4 > Len(s) THEN Invalid
                   ELSE IF CharAt(s, k4) = "," THEN ScanMembers(s, k4 + 1, got)
                   ELSE IF CharAt(s, k4) = "}" /\ SkipSpace(s, k4 + 1) > Len(s)
                        THEN [ok |-> TRUE, members |-> got]
                   ELSE Invalid

ParseObject(s) ==
    LET k == SkipSpace(s, 1) IN
    IF k > Len(s) \/ CharAt(s, k) # "{" THEN Invalid
    ELSE ScanMembers(s, k + 1, << >>)

\* the keys of the object in a JSON text
ObjectKeys(s) == LET ms == ParseObject(s).members IN {ms[k][1] : k \in 1..Len(ms)}

\* the value under a key that the object has
ObjectValue(s, key) ==
    LET ms == ParseObject(s).members
        k  == CHOOSE j \in 1..Len(ms) : ms[j][1] = key
    IN  ms[k][2]

\* json.Unmarshal(text, &parsed) into a zero Info: each member sets the
\* field its key names, a key met twice keeps the later value, and a field
\* without a member stays empty
Unmarshal(s) ==
    LET ms == ParseObject(s).members
        Value(key) ==
            LET at == {j \in 1..Len(ms) : ms[j][1] = key}
            IN  IF at = {} THEN ""
                ELSE ms[CHOOSE j \in at : \A k \in at : k <= j][2]
    IN  [Version   |-> Value("version"),
         Commit    |-> Value("commit"),
         BuildDate |-> Value("build_date"),
         Branch    |-> Value("branch"),
         GoVersion |-> Value("go_version"),
         Platform  |-> Value("platform"),
         Compiler  |-> Value("compiler")]

(***************************************************************************)
(* The heap of Info objects.  Go collects an Info once nothing refers to   *)
(* it, so the heap holds the objects reachable from the caller's info,     *)
(* the builder and the handler closure.                                    *)
(***************************************************************************)
Collect(h, roots) == [a \in (DOMAIN h) \cap roots |-> h[a]]

CanAlloc(h) == Addr \ DOMAIN h # {}

FreshAddr(h) == CHOOSE a \in Addr \ DOMAIN h : \A b \in Addr \ DOMAIN h : a <= b

NoHandler ==
    [kind |-> "none", Info |-> NULL, Pretty |-> FALSE,
     IncludeHeaders |-> FALSE, HeaderPrefix |-> ""]

\* a response nothing has been written to
NoResponse == [status |-> 0, header |-> << >>, body |-> "", events |-> << >>]

\* the caller's request variable before any request was made
NoRequest == [Method |-> "", Path |-> ""]

\* a request slot: idle, or running the closure on req with the writer w
\* after n calls on it, or done
IdleSlot == [state |-> "idle", req |-> NoRequest, w |-> NoResponse, n |-> 0]

NoneInFlight == [s \in 1..MaxRequests |-> IdleSlot]

NoResult == [op |-> "none", val |-> ""]

(***************************************************************************)
(* The values the callers pass in.                                         *)
(***************************************************************************)
Hash == "abc1234567890def"

Versions == {"", "dev", "development", "Dev", "1.0.0"}

Commits == {Slice(Hash, n) : n \in 0..MaxCommitLen} \cup {"unknown", "unknowns"}

BuildDates == {"", "unknown", "2025-01-01T00:00:00Z"}

Branches == {"", "main", "r&d/\"x\""}

Init ==
    /\ Version = "dev"
    /\ Commit = "unknown"
    /\ BuildDate = "unknown"
    /\ Branch = ""
    /\ heap = << >>
    /\ info = NULL
    /\ builder = NULL
    /\ args = << >>
    /\ handler = NoHandler
    /\ req = NoRequest
    /\ resp = NoResponse
    /\ inflight = NoneInFlight
    /\ ret = NoResult

(***************************************************************************)
(* The Infos a caller can hold: built by New, NewWithBranch or Default, or *)
(* written as a struct literal &Info{...} that leaves the runtime fields   *)
(* empty.                                                                  *)
(***************************************************************************)
InfoLiteral(v, c, d, b) ==
    [Version |-> v, Commit |-> c, BuildDate |-> d, Branch |-> b,
     GoVersion |-> "", Platform |-> "", Compiler |-> ""]

InfoInputs ==
    {New(v, c, d) : v \in Versions, c \in Commits, d \in BuildDates}
    \cup {NewWithBranch(v, c, d, b) :
             v \in Versions, c \in Commits, d \in BuildDates, b \in Branches}
    \cup {InfoLiteral(v, c, d, b) :
             v \in Versions, c \in Commits, d \in BuildDates, b \in Branches}

\* the program after its caller has constructed one Info
InitInfo ==
    /\ Version = "dev"
    /\ Commit = "unknown"
    /\ BuildDate = "unknown"
    /\ Branch = ""
    /\ \E i \in InfoInputs \cup {Default} : heap = (1 :> i)
    /\ info = 1
    /\ builder = NULL
    /\ args = << >>
    /\ handler = NoHandler
    /\ req = NoRequest
    /\ resp = NoResponse
    /\ inflight = NoneInFlight
    /\ ret = NoResult

\* a method call that also shortens the stored commit
Returns_ShortensCommit(op, val) ==
    /\ info # NULL
    /\ ret' = [op |-> op, val |-> val]
    /\ heap' = [heap EXCEPT ![info].Commit = ShortCommit(heap[info])]
    /\ UNCHANGED <<Version, Commit, BuildDate, Branch, info, builder, args, handler, req, resp, inflight>>

(***************************************************************************)
(* The caller calls a method on info; ret holds what it returned.          *)
(***************************************************************************)
Returns(op, val) ==
    /\ info # NULL
    /\ ret' = [op |-> op, val |-> val]
    /\ UNCHANGED <<Version, Commit, BuildDate, Branch, heap, info, builder, args, handler, req, resp, inflight>>

CallString == Returns("String", String(heap[info]))

CallFull == Returns("Full", Full(heap[info]))

CallJSON == Returns("JSON", JSON(heap[info]))

CallJSONPretty == Returns("JSONPretty", JSONPretty(heap[info]))

CallMap == Returns("Map", Map(heap[info]))

CallValidate == Returns("Validate", Validate(heap[info]))

CallIsDev == Returns("IsDev", IsDev(heap[info]))

CallShortCommit == Returns("ShortCommit", ShortCommit(heap[info]))

CallBuildTimestamp == Returns("BuildTimestamp", BuildTimestamp(heap[info]))

NextInfo ==
    \/ CallString
    \/ CallFull
    \/ CallJSON
    \/ CallJSONPretty
    \/ CallMap
    \/ CallValidate
    \/ CallIsDev
    \/ CallShortCommit
    \/ CallBuildTimestamp

SpecInfo == InitInfo /\ [][NextInfo]_vars

(***************************************************************************)
(* BuildTimestamp on the build dates of its test and on dates, valid and   *)
(* not, in each of the layouts: the caller holds &Info{BuildDate: d}.      *)
(***************************************************************************)
StampDates ==
    {y \o "-" \o m \o "-" \o d :
        y \in {"2025", "2024", "0001"}, m \in {"01", "02", "13"},
        d \in {"01", "29", "31", "00"}}

StampClocks ==
    {"", "T12:00:00Z", "T12:00:00+08:00", " 12:00:00", "T24:00:00Z", "T12:00:00", "x"}

StampInputs ==
    {d \o c : d \in StampDates, c \in StampClocks}
    \cup {"", "unknown", "not-a-date",
          "Wed, 01 Jan 2025 12:00:00 UTC", "Wed, 01 Jan 2025 12:00:00 GMT",
          "Wed, 01 Jan 2025 12:00:00 +0800", "Wed, 32 Jan 2025 12:00:00 UTC",
          "0001-01-01T08:00:00+08:00", "2025-01-01 1:00:00.25"}

InitStamp ==
    /\ Version = "dev"
    /\ Commit = "unknown"
    /\ BuildDate = "unknown"
    /\ Branch = ""
    /\ \E d \in StampInputs : heap = (1 :> InfoLiteral("", "", d, ""))
    /\ info = 1
    /\ builder = NULL
    /\ args = << >>
    /\ handler = NoHandler
    /\ req = NoRequest
    /\ resp = NoResponse
    /\ inflight = NoneInFlight
    /\ ret = NoResult

SpecStamp == InitStamp /\ [][CallBuildTimestamp]_vars

(***************************************************************************)
(* The Builder.  builder is the address in the builder's info field; the   *)
(* setters write through it and Build hands the same address out.          *)
(***************************************************************************)
BuilderVersions == {"1.0.0", "2.0.0"}

BuilderCommits == {"abc123", "unknown"}

BuilderBuildDates == {"2025-01-01T00:00:00Z"}

BuilderBranches == {"main"}

\* a Builder starting from an Info without the runtime fields
NewBuilder_NoRuntime ==
    [Version   |-> "",
     Commit    |-> "",
     BuildDate |-> "",
     Branch    |-> "",
     GoVersion |-> "",
     Platform  |-> "",
     Compiler  |-> ""]

\* the Info a new Builder starts from
NewBuilder ==
    [Version   |-> "",
     Commit    |-> "",
     BuildDate |-> "",
     Branch    |-> "",
     GoVersion |-> RuntimeVersion,
     Platform  |-> RuntimePlatform,
     Compiler  |-> RuntimeCompiler]

\* b = NewBuilder(): the builder that b held is dropped
CallNewBuilder ==
    LET h == Collect(heap, {info, handler.Info})
        a == FreshAddr(h)
    IN  /\ CanAlloc(h)
        /\ heap' = (a :> NewBuilder) @@ h
        /\ builder' = a
        /\ ret' = [op |-> "NewBuilder", val |-> a]
        /\ UNCHANGED <<Version, Commit, BuildDate, Branch, info, args, handler, req, resp, inflight>>

\* a setter assigns one field of b.info and returns b
SetField(op, arg, i) ==
    /\ builder # NULL
    /\ heap' = [heap EXCEPT ![builder] = i]
    /\ ret' = [op |-> op, val |-> builder, arg |-> arg]
    /\ UNCHANGED <<Version, Commit, BuildDate, Branch, info, builder, args, handler, req, resp, inflight>>

WithVersion ==
    \E version \in BuilderVersions :
        builder # NULL /\ SetField("WithVersion", version, [heap[builder] EXCEPT !.Version = version])

WithCommit ==
    \E commit \in BuilderCommits :
        builder # NULL /\ SetField("WithCommit", commit, [heap[builder] EXCEPT !.Commit = commit])

WithBuildDate ==
    \E buildDate \in BuilderBuildDates :
        builder # NULL /\ SetField("WithBuildDate", buildDate, [heap[builder] EXCEPT !.BuildDate = buildDate])

WithBranch ==
    \E branch \in BuilderBranches :
        builder # NULL /\ SetField("WithBranch", branch, [heap[builder] EXCEPT !.Branch = branch])

\* info = b.Build(): the builder's own Info, not a copy
Build ==
    /\ builder # NULL
    /\ info' = builder
    /\ heap' = Collect(heap, {builder, handler.Info})
    /\ ret' = [op |-> "Build", val |-> builder]
    /\ UNCHANGED <<Version, Commit, BuildDate, Branch, builder, args, handler, req, resp, inflight>>

NextBuilder ==
    \/ CallNewBuilder
    \/ WithVersion
    \/ WithCommit
    \/ WithBuildDate
    \/ WithBranch
    \/ Build

SpecBuilder == Init /\ [][NextBuilder]_vars

(***************************************************************************)
(* Response headers.  http.Header.Set and fiber's Ctx.Set both store a     *)
(* header under its canonical name: the first letter and every letter      *)
(* after a hyphen in upper case, the others in lower case.                 *)
(***************************************************************************)
RECURSIVE CanonicalFrom(_, _)
CanonicalFrom(s, upper) ==
    IF s = "" THEN ""
    ELSE (IF upper THEN ToUpper(Head(s)) ELSE ToLower(Head(s)))
         \o CanonicalFrom(Tail(s), Head(s) = "-")

CanonicalHeaderKey(s) == CanonicalFrom(s, TRUE)

(***************************************************************************)
(* An http.ResponseWriter: the header map, the status (0 until it is       *)
(* written), the body, and the calls made on it in order.                  *)
(***************************************************************************)
HeaderSet(w, key, value) ==
    [w EXCEPT !.header = (CanonicalHeaderKey(key) :> value) @@ w.header,
              !.events = Append(w.events, <<"Set", CanonicalHeaderKey(key), value>>)]

WriteHeader(w, code) ==
    [w EXCEPT !.status = IF w.status = 0 THEN code ELSE w.status,
              !.events = Append(w.events, <<"WriteHeader", code>>)]

\* Write sends status 200 first when no status has been written
Write(w, data) ==
    [w EXCEPT !.status = IF w.status = 0 THEN 200 ELSE w.status,
              !.body = w.body \o data,
              !.events = Append(w.events, <<"Write", data>>)]

(***************************************************************************)
(* A fiber.Ctx: its response starts with status 200.                       *)
(***************************************************************************)
StatusOK == 200

FiberCtx == [NoResponse EXCEPT !.status = StatusOK]

FiberSet(c, key, value) ==
    [c EXCEPT !.header = (CanonicalHeaderKey(key) :> value) @@ c.header,
              !.events = Append(c.events, <<"Set", CanonicalHeaderKey(key), value>>)]

\* c.JSON(i): the configured encoder is json.Marshal; the call sets the
\* body and then the content type
FiberJSON(c, i) ==
    LET c1 == [c EXCEPT !.body = Marshal(i),
                        !.events = Append(c.events, <<"Write", Marshal(i)>>)]
    IN  FiberSet(c1, "Content-Type", "application/json")

FiberSendString(c, body) ==
    [c EXCEPT !.body = body, !.events = Append(c.events, <<"Write", body>>)]

(***************************************************************************)
(* Header injection.                                                       *)
(***************************************************************************)
setVersionHeaders(w, i, prefix) ==
    LET w1 == HeaderSet(w, prefix \o "Version", i.Version)
        w2 == IF i.Commit # "" /\ i.Commit # "unknown"
              THEN HeaderSet(w1, prefix \o "Commit", ShortCommit(i)) ELSE w1
        w3 == IF i.Branch # ""
              THEN HeaderSet(w2, prefix \o "Branch", i.Branch) ELSE w2
    IN  IF i.BuildDate # "" /\ i.BuildDate # "unknown"
        THEN HeaderSet(w3, prefix \o "Build-Date", i.BuildDate) ELSE w3

\* setVersionHeadersFiber sending the whole commit and testing the build
\* date for emptiness only
setVersionHeadersFiber_Verbatim(c, i, prefix) ==
    LET c1 == FiberSet(c, prefix \o "Version", i.Version)
        c2 == IF i.Commit # "" /\ i.Commit # "unknown"
              THEN FiberSet(c1, prefix \o "Commit", i.Commit) ELSE c1
        c3 == IF i.Branch # ""
              THEN FiberSet(c2, prefix \o "Branch", i.Branch) ELSE c2
    IN  IF i.BuildDate # ""
        THEN FiberSet(c3, prefix \o "Build-Date", i.BuildDate) ELSE c3

setVersionHeadersFiber(c, i, prefix) ==
    LET c1 == FiberSet(c, prefix \o "Version", i.Version)
        c2 == IF i.Commit # "" /\ i.Commit # "unknown"
              THEN FiberSet(c1, prefix \o "Commit", ShortCommit(i)) ELSE c1
        c3 == IF i.Branch # ""
              THEN FiberSet(c2, prefix \o "Branch", i.Branch) ELSE c2
    IN  IF i.BuildDate # "" /\ i.BuildDate # "unknown"
        THEN FiberSet(c3, prefix \o "Build-Date", i.BuildDate) ELSE c3

(***************************************************************************)
(* The handler constructors.  Each takes the variadic config (a sequence   *)
(* of at most one HandlerConfig, whose Info is an Info or NilInfo) and     *)
(* yields the configuration its closure captures.                          *)
(***************************************************************************)
NilInfo == [nil |-> TRUE]

DefaultHandlerConfig ==
    [Info |-> Default, Pretty |-> FALSE, IncludeHeaders |-> FALSE, HeaderPrefix |-> "X-"]

Closure(kind, cfg) ==
    [kind |-> kind, Info |-> cfg.Info, Pretty |-> cfg.Pretty,
     IncludeHeaders |-> cfg.IncludeHeaders, HeaderPrefix |-> cfg.HeaderPrefix]

\* Handler replacing a nil Info by a blank record
Handler_BlankFallback(config) ==
    LET cfg  == IF Len(config) > 0 THEN config[1] ELSE DefaultHandlerConfig
        cfg1 == IF cfg.Info = NilInfo THEN [cfg EXCEPT !.Info = New("", "", "")] ELSE cfg
        cfg2 == IF cfg1.HeaderPrefix = "" THEN [cfg1 EXCEPT !.HeaderPrefix = "X-"] ELSE cfg1
    IN  Closure("Handler", cfg2)

Handler(config) ==
    LET cfg  == IF Len(config) > 0 THEN config[1] ELSE DefaultHandlerConfig
        cfg1 == IF cfg.Info = NilInfo THEN [cfg EXCEPT !.Info = Default] ELSE cfg
        cfg2 == IF cfg1.HeaderPrefix = "" THEN [cfg1 EXCEPT !.HeaderPrefix = "X-"] ELSE cfg1
    IN  Closure("Handler", cfg2)

FiberHandler(config) ==
    LET cfg  == IF Len(config) > 0 THEN config[1] ELSE DefaultHandlerConfig
        cfg1 == IF cfg.Info = NilInfo THEN [cfg EXCEPT !.Info = Default] ELSE cfg
        cfg2 == IF cfg1.HeaderPrefix = "" THEN [cfg1 EXCEPT !.HeaderPrefix = "X-"] ELSE cfg1
    IN  Closure("FiberHandler", cfg2)

\* TextHandler and FiberTextHandler leave HeaderPrefix as it was passed
TextHandler(config) ==
    LET cfg  == IF Len(config) > 0 THEN config[1] ELSE DefaultHandlerConfig
        cfg1 == IF cfg.Info = NilInfo THEN [cfg EXCEPT !.Info = Default] ELSE cfg
    IN  Closure("TextHandler", cfg1)

FiberTextHandler(config) ==
    LET cfg  == IF Len(config) > 0 THEN config[1] ELSE DefaultHandlerConfig
        cfg1 == IF cfg.Info = NilInfo THEN [cfg EXCEPT !.Info = Default] ELSE cfg
    IN  Closure("FiberTextHandler", cfg1)

\* the middlewares capture info and prefix only
Middleware(i, prefix) ==
    [kind |-> "Middleware",
     Info |-> IF i = NilInfo THEN Default ELSE i,
     Pretty |-> FALSE, IncludeHeaders |-> TRUE,
     HeaderPrefix |-> IF prefix = "" THEN "X-" ELSE prefix]

FiberMiddleware(i, prefix) ==
    [kind |-> "FiberMiddleware",
     Info |-> IF i = NilInfo THEN Default ELSE i,
     Pretty |-> FALSE, IncludeHeaders |-> TRUE,
     HeaderPrefix |-> IF prefix = "" THEN "X-" ELSE prefix]

SimpleHandler == [NoHandler EXCEPT !.kind = "SimpleHandler"]

FiberSimpleHandler == [NoHandler EXCEPT !.kind = "FiberSimpleHandler"]

(***************************************************************************)
(* The closures the constructors return, run on one request.  cfg is the   *)
(* captured configuration and i the Info its Info field points to.         *)
(***************************************************************************)
\* the closure of Handler ignoring cfg.Pretty
HandlerFunc_AlwaysCompact(cfg, i) ==
    LET w1 == HeaderSet(NoResponse, "Content-Type", "application/json")
        w2 == IF cfg.IncludeHeaders
              THEN setVersionHeaders(w1, i, cfg.HeaderPrefix) ELSE w1
    IN  Write(WriteHeader(w2, StatusOK), Marshal(i))

\* the closure of Handler writing the status before the version headers
HandlerFunc_HeadersLate(cfg, i) ==
    LET w1     == HeaderSet(NoResponse, "Content-Type", "application/json")
        w2     == WriteHeader(w1, StatusOK)
        w3     == IF cfg.IncludeHeaders
                  THEN setVersionHeaders(w2, i, cfg.HeaderPrefix) ELSE w2
        output == IF cfg.Pretty THEN MarshalIndent(i) ELSE Marshal(i)
    IN  Write(w3, output)

\* the err of json.Marshal and json.MarshalIndent on an Info: a struct of
\* strings always marshals, so it is nil
MarshalError(i) == "nil"

StatusInternalServerError == 500

\* http.Error: the text content type, nosniff, the status, the message and
\* a newline
httpError(w, error, code) ==
    LET w1 == HeaderSet(w, "Content-Type", "text/plain; charset=utf-8")
        w2 == HeaderSet(w1, "X-Content-Type-Options", "nosniff")
    IN  Write(WriteHeader(w2, code), error \o "\n")

HandlerFunc(cfg, i) ==
    LET w1     == HeaderSet(NoResponse, "Content-Type", "application/json")
        w2     == IF cfg.IncludeHeaders
                  THEN setVersionHeaders(w1, i, cfg.HeaderPrefix) ELSE w1
        output == IF cfg.Pretty THEN MarshalIndent(i) ELSE Marshal(i)
    IN  IF MarshalError(i) # "nil"
        THEN httpError(w2, "{\"error\": \"failed to marshal version info\"}",
                       StatusInternalServerError)
        ELSE Write(WriteHeader(w2, StatusOK), output)

\* both branches on cfg.Pretty call c.JSON
FiberHandlerFunc(cfg, i) ==
    LET c1 == FiberSet(FiberCtx, "Content-Type", "application/json")
        c2 == IF cfg.IncludeHeaders
              THEN setVersionHeadersFiber(c1, i, cfg.HeaderPrefix) ELSE c1
    IN  IF cfg.Pretty THEN FiberJSON(c2, i) ELSE FiberJSON(c2, i)

\* the closure of TextHandler calling Default() on every request
TextHandlerFunc_ReReads(cfg, i) ==
    LET w1 == HeaderSet(NoResponse, "Content-Type", "text/plain; charset=utf-8")
        w2 == IF cfg.IncludeHeaders
              THEN setVersionHeaders(w1, Default, cfg.HeaderPrefix) ELSE w1
    IN  Write(WriteHeader(w2, StatusOK), Full(Default))

TextHandlerFunc(cfg, i) ==
    LET w1 == HeaderSet(NoResponse, "Content-Type", "text/plain; charset=utf-8")
        w2 == IF cfg.IncludeHeaders
              THEN setVersionHeaders(w1, i, cfg.HeaderPrefix) ELSE w1
    IN  Write(WriteHeader(w2, StatusOK), Full(i))

\* the closure of FiberTextHandler sending the one-line form
FiberTextHandlerFunc_String(cfg, i) ==
    LET c1 == FiberSet(FiberCtx, "Content-Type", "text/plain; charset=utf-8")
        c2 == IF cfg.IncludeHeaders
              THEN setVersionHeadersFiber(c1, i, cfg.HeaderPrefix) ELSE c1
    IN  FiberSendString(c2, String(i))

FiberTextHandlerFunc(cfg, i) ==
    LET c1 == FiberSet(FiberCtx, "Content-Type", "text/plain; charset=utf-8")
        c2 == IF cfg.IncludeHeaders
              THEN setVersionHeadersFiber(c1, i, cfg.HeaderPrefix) ELSE c1
    IN  FiberSendString(c2, Full(i))

\* the handler a middleware wraps: the one of the tests, which answers "OK";
\* the event records the request it was called with
NextServeHTTP(w, r) ==
    Write(WriteHeader([w EXCEPT !.events = Append(w.events, <<"ServeHTTP", r>>)], StatusOK), "OK")

\* c.Next() runs the next handler on the same context, which holds the request
FiberNext(c, r) ==
    FiberSendString([c EXCEPT !.events = Append(c.events, <<"Next", r>>)], "OK")

\* the closure of Middleware calling the wrapped handler before it sets
\* the headers
MiddlewareFunc_HeadersLast(cfg, i, r) ==
    setVersionHeaders(NextServeHTTP(NoResponse, r), i, cfg.HeaderPrefix)

MiddlewareFunc(cfg, i, r) ==
    NextServeHTTP(setVersionHeaders(NoResponse, i, cfg.HeaderPrefix), r)

FiberMiddlewareFunc(cfg, i, r) ==
    FiberNext(setVersionHeadersFiber(FiberCtx, i, cfg.HeaderPrefix), r)

\* the closure of SimpleHandler leaving the commit out
SimpleHandlerFunc_VersionOnly ==
    LET w1 == HeaderSet(NoResponse, "Content-Type", "text/plain; charset=utf-8")
    IN  Write(WriteHeader(w1, StatusOK), Version)

\* the simple handlers call Default() on every request
SimpleHandlerFunc ==
    LET w1 == HeaderSet(NoResponse, "Content-Type", "text/plain; charset=utf-8")
    IN  Write(WriteHeader(w1, StatusOK), String(Default))

FiberSimpleHandlerFunc ==
    LET c1 == FiberSet(FiberCtx, "Content-Type", "text/plain; charset=utf-8")
    IN  FiberSendString(c1, String(Default))

(***************************************************************************)
(* The HTTP layer as a state machine: the package variables are assigned,  *)
(* a handler is constructed, the handler serves a request.                 *)
(***************************************************************************)
VarVersions == {"dev", "2.0.0"}

VarCommits == {"unknown", "xyz789abc"}

VarBuildDates == {"unknown", "2025-06-15T12:00:00Z"}

VarBranches == {"", "develop"}

HTTPInfos ==
    {NewWithBranch(v, c, d, b) :
        v \in {"", "1.0.0"}, c \in {"", "unknown", "abc1234567890"},
        d \in {"", "unknown", "2025-01-01T00:00:00Z"}, b \in {"", "main"}}

Prefixes == {"", "x-app-"}

\* the variadic config arguments: none, or one HandlerConfig
Configs ==
    {<< >>} \cup
    {<<[Info |-> i, Pretty |-> p, IncludeHeaders |-> h, HeaderPrefix |-> x]>> :
        i \in HTTPInfos \cup {NilInfo}, p \in BOOLEAN, h \in BOOLEAN, x \in Prefixes}

\* the arguments (info, prefix) of the middlewares
MiddlewareArgs ==
    {<<[Info |-> i, HeaderPrefix |-> x]>> : i \in HTTPInfos \cup {NilInfo}, x \in Prefixes}

AssignVersion ==
    /\ \E v \in VarVersions : Version' = v
    /\ UNCHANGED <<Commit, BuildDate, Branch, heap, info, builder, args, handler, req, resp, ret, inflight>>

AssignCommit ==
    /\ \E c \in VarCommits : Commit' = c
    /\ UNCHANGED <<Version, BuildDate, Branch, heap, info, builder, args, handler, req, resp, ret, inflight>>

AssignBuildDate ==
    /\ \E d \in VarBuildDates : BuildDate' = d
    /\ UNCHANGED <<Version, Commit, Branch, heap, info, builder, args, handler, req, resp, ret, inflight>>

AssignBranch ==
    /\ \E b \in VarBranches : Branch' = b
    /\ UNCHANGED <<Version, Commit, BuildDate, heap, info, builder, args, handler, req, resp, ret, inflight>>

\* handler := <the closure h>, built from the arguments a: the Info it
\* captured lives on the heap.  A behaviour follows one handler from its
\* construction on; handlers share nothing but the package variables.
Install(a, h) ==
    LET hp   == Collect(heap, {info, builder})
        addr == FreshAddr(hp)
    IN  /\ handler = NoHandler
        /\ CanAlloc(hp)
        /\ heap' = (addr :> h.Info) @@ hp
        /\ handler' = [h EXCEPT !.Info = addr]
        /\ args' = a
        /\ resp' = NoResponse
        /\ UNCHANGED <<Version, Commit, BuildDate, Branch, info, builder, req, ret, inflight>>

InstallSimple(h) ==
    /\ handler = NoHandler
    /\ heap' = Collect(heap, {info, builder})
    /\ handler' = h
    /\ args' = << >>
    /\ resp' = NoResponse
    /\ UNCHANGED <<Version, Commit, BuildDate, Branch, info, builder, req, ret, inflight>>

CallHandler == \E config \in Configs : Install(config, Handler(config))

CallFiberHandler == \E config \in Configs : Install(config, FiberHandler(config))

CallTextHandler == \E config \in Configs : Install(config, TextHandler(config))

CallFiberTextHandler == \E config \in Configs : Install(config, FiberTextHandler(config))

CallMiddleware ==
    \E a \in MiddlewareArgs : Install(a, Middleware(a[1].Info, a[1].HeaderPrefix))

CallFiberMiddleware ==
    \E a \in MiddlewareArgs : Install(a, FiberMiddleware(a[1].Info, a[1].HeaderPrefix))

CallSimpleHandler == InstallSimple(SimpleHandler)

CallFiberSimpleHandler == InstallSimple(FiberSimpleHandler)

\* the requests of the tests and one with another method and path
Requests == {[Method |-> "GET", Path |-> "/"], [Method |-> "POST", Path |-> "/version"]}

\* the closure of the handler run on request r: the response it leaves
Respond(r) ==
    CASE handler.kind = "Handler" -> HandlerFunc(handler, heap[handler.Info])
      [] handler.kind = "FiberHandler" -> FiberHandlerFunc(handler, heap[handler.Info])
      [] handler.kind = "TextHandler" -> TextHandlerFunc(handler, heap[handler.Info])
      [] handler.kind = "FiberTextHandler" -> FiberTextHandlerFunc(handler, heap[handler.Info])
      [] handler.kind = "Middleware" -> MiddlewareFunc(handler, heap[handler.Info], r)
      [] handler.kind = "FiberMiddleware" -> FiberMiddlewareFunc(handler, heap[handler.Info], r)
      [] handler.kind = "SimpleHandler" -> SimpleHandlerFunc
      [] handler.kind = "FiberSimpleHandler" -> FiberSimpleHandlerFunc

\* the handler serves one request
ServeHTTP ==
    /\ handler.kind # "none"
    /\ \E r \in Requests :
        /\ req' = r
        /\ resp' = Respond(r)
    /\ UNCHANGED <<Version, Commit, BuildDate, Branch, heap, info, builder, args, handler, ret, inflight>>

NextHTTP ==
    \/ AssignVersion
    \/ AssignCommit
    \/ AssignBuildDate
    \/ AssignBranch
    \/ CallHandler
    \/ CallFiberHandler
    \/ CallTextHandler
    \/ CallFiberTextHandler
    \/ CallMiddleware
    \/ CallFiberMiddleware
    \/ CallSimpleHandler
    \/ CallFiberSimpleHandler
    \/ ServeHTTP

SpecHTTP == Init /\ [][NextHTTP]_vars

(***************************************************************************)
(* One Info used by its caller and by a handler: the caller constructs an  *)
(* Info, calls its methods, and passes it to a constructor, whose closure  *)
(* holds the same pointer.                                                 *)
(***************************************************************************)
FrameInfos ==
    {NewWithBranch("1.0.0", c, d, b) :
        c \in {"unknown", "abc1234567890"},
        d \in {"unknown", "2025-01-01T00:00:00Z"}, b \in {"", "main"}}

InitFrame ==
    /\ Version = "dev"
    /\ Commit = "unknown"
    /\ BuildDate = "unknown"
    /\ Branch = ""
    /\ \E i \in FrameInfos \cup {Default} : heap = (1 :> i)
    /\ info = 1
    /\ builder = NULL
    /\ args = << >>
    /\ handler = NoHandler
    /\ req = NoRequest
    /\ resp = NoResponse
    /\ inflight = NoneInFlight
    /\ ret = NoResult

\* handler := <the closure h> built from the caller's own Info
InstallShared(a, h) ==
    /\ handler = NoHandler
    /\ handler' = [h EXCEPT !.Info = info]
    /\ args' = a
    /\ resp' = NoResponse
    /\ UNCHANGED <<Version, Commit, BuildDate, Branch, heap, info, builder, req, ret, inflight>>

CallWithInfo ==
    /\ info # NULL
    /\ \E p \in BOOLEAN, h \in BOOLEAN, x \in Prefixes :
          LET config == <<[Info |-> heap[info], Pretty |-> p,
                           IncludeHeaders |-> h, HeaderPrefix |-> x]>>
          IN  \/ InstallShared(config, Handler(config))
              \/ InstallShared(config, FiberHandler(config))
              \/ InstallShared(config, TextHandler(config))
              \/ InstallShared(config, FiberTextHandler(config))
              \/ InstallShared(config, Middleware(heap[info], x))
              \/ InstallShared(config, FiberMiddleware(heap[info], x))

NextFrame ==
    \/ NextInfo
    \/ CallWithInfo
    \/ CallSimpleHandler
    \/ CallFiberSimpleHandler
    \/ ServeHTTP

SpecFrame == InitFrame /\ [][NextFrame]_vars

(***************************************************************************)
(* Default(): the package variables are assigned, the caller calls         *)
(* Default() and the methods of the Info it got.                           *)
(***************************************************************************)
\* info = Default(): a new Info; the one info held is dropped afterwards
CallDefault ==
    LET a == FreshAddr(heap)
    IN  /\ CanAlloc(heap)
        /\ info' = a
        /\ heap' = Collect((a :> Default) @@ heap, {a, builder, handler.Info})
        /\ ret' = [op |-> "Default", val |-> a]
        /\ UNCHANGED <<Version, Commit, BuildDate, Branch, builder, args, handler, req, resp, inflight>>

NextDefault ==
    \/ AssignVersion
    \/ AssignCommit
    \/ AssignBuildDate
    \/ AssignBranch
    \/ CallDefault
    \/ NextInfo

SpecDefault == Init /\ [][NextDefault]_vars

(***************************************************************************)
(* Concurrent requests.  The server runs the handler's closure once per    *)
(* request, each run in its own goroutine with its own response writer     *)
(* (or fiber.Ctx); the runs share the closure's captured configuration,    *)
(* the Info it points to and the package variables.  A run advances one    *)
(* call on its writer at a time, and what it passes to the call is         *)
(* computed from the shared state as it is at that moment.  The package    *)
(* variables were assigned and the handler was built before the first      *)
(* request.                                                                *)
(***************************************************************************)
FiberKinds == {"FiberHandler", "FiberTextHandler", "FiberMiddleware", "FiberSimpleHandler"}

\* a writer handed out again while the request that has it is still served
StartWriter_Reused(kind) ==
    IF inflight[1].state = "running" THEN inflight[1].w
    ELSE IF kind \in FiberKinds THEN FiberCtx ELSE NoResponse

\* the writer a request starts with
StartWriter(kind) == IF kind \in FiberKinds THEN FiberCtx ELSE NoResponse

\* one call of the closure on its writer, as the log of the calls names it
ApplyCall(kind, w, e) ==
    CASE e[1] = "Set" ->
           IF kind \in FiberKinds THEN FiberSet(w, e[2], e[3]) ELSE HeaderSet(w, e[2], e[3])
      [] e[1] = "WriteHeader" -> WriteHeader(w, e[2])
      [] e[1] = "Write" ->
           IF kind \in FiberKinds THEN FiberSendString(w, e[2]) ELSE Write(w, e[2])
      [] OTHER -> [w EXCEPT !.events = Append(w.events, e)]

ConcInfos == {NilInfo, New("1.0.0", "abc1234567890", "unknown")}

\* with the version headers and compact, or without them and indented
ConcConfigs ==
    {<<[Info |-> i, Pretty |-> ~h, IncludeHeaders |-> h, HeaderPrefix |-> "x-app-"]>> :
        i \in ConcInfos, h \in BOOLEAN}

\* the package variables as a build that sets Version and Commit with
\* -ldflags leaves them
ConcPackageVars == {<<"2.0.0", "xyz789abc", "unknown", "">>}

\* the program when it starts to serve: the package variables assigned,
\* one handler built
InitConc ==
    /\ \E pv \in ConcPackageVars :
          Version = pv[1] /\ Commit = pv[2] /\ BuildDate = pv[3] /\ Branch = pv[4]
    /\ \/ \E config \in ConcConfigs :
            \E h \in {Handler(config), FiberHandler(config),
                      TextHandler(config), FiberTextHandler(config),
                      Middleware(config[1].Info, config[1].HeaderPrefix),
                      FiberMiddleware(config[1].Info, config[1].HeaderPrefix)} :
                /\ heap = (1 :> h.Info)
                /\ handler = [h EXCEPT !.Info = 1]
                /\ args = config
       \/ /\ heap = << >>
          /\ handler \in {SimpleHandler, FiberSimpleHandler}
          /\ args = << >>
    /\ info = NULL
    /\ builder = NULL
    /\ req = NoRequest
    /\ resp = NoResponse
    /\ inflight = NoneInFlight
    /\ ret = NoResult

\* the server accepts a request and starts the closure on it
Accept(s) ==
    /\ inflight[s].state = "idle"
    /\ \E r \in Requests :
          inflight' = [inflight EXCEPT ![s] =
                          [state |-> "running", req |-> r,
                           w |-> StartWriter(handler.kind), n |-> 0]]
    /\ UNCHANGED <<Version, Commit, BuildDate, Branch, heap, info, builder, args, handler, req, resp, ret>>

\* the closure makes its next call on the writer
Step(s) ==
    LET calls == Respond(inflight[s].req).events
        n     == inflight[s].n
    IN  /\ inflight[s].state = "running"
        /\ n < Len(calls)
        /\ inflight' = [inflight EXCEPT
                           ![s].w = ApplyCall(handler.kind, inflight[s].w, calls[n + 1]),
                           ![s].n = n + 1]
        /\ UNCHANGED <<Version, Commit, BuildDate, Branch, heap, info, builder, args, handler, req, resp, ret>>

\* the closure returns: the response is complete
Return(s) ==
    /\ inflight[s].state = "running"
    /\ inflight[s].n = Len(Respond(inflight[s].req).events)
    /\ inflight' = [inflight EXCEPT ![s].state = "done"]
    /\ UNCHANGED <<Version, Commit, BuildDate, Branch, heap, info, builder, args, handler, req, resp, ret>>

\* the response has been sent; the slot takes the next request
Release(s) ==
    /\ inflight[s].state = "done"
    /\ inflight' = [inflight EXCEPT ![s] = IdleSlot]
    /\ UNCHANGED <<Version, Commit, BuildDate, Branch, heap, info, builder, args, handler, req, resp, ret>>

NextConc ==
    \E s \in 1..MaxRequests :
        \/ Accept(s)
        \/ Step(s)
        \/ Return(s)
        \/ Release(s)

SpecConc == InitConc /\ [][NextConc]_vars

(***************************************************************************)
(* Properties of the Info methods, under SpecInfo.                         *)
(***************************************************************************)
\* the receiver of the method call whose result ret holds
Recv == heap[info]

\* a field that is empty or the sentinel "unknown"
Absent(f) == f = "" \/ f = "unknown"

\* p is a prefix of s
HasPrefix(s, p) == Len(p) <= Len(s) /\ SubSeq(s, 1, Len(p)) = p

\* the first 7 bytes of c, or all of c when it has no more than 7
Truncate7(c) == IF Len(c) <= 7 THEN c ELSE SubSeq(c, 1, 7)

\* C1: String() returns exactly the version when the commit is empty or
\* "unknown", and otherwise version + " (" + ShortCommit() + ")", the short
\* commit being the commit truncated to 7 characters.
C1_StringFormat ==
    ret.op = "String" =>
        IF Absent(Recv.Commit)
        THEN ret.val = Recv.Version
        ELSE /\ ret.val = Recv.Version \o " (" \o ShortCommit(Recv) \o ")"
             /\ ret.val = Recv.Version \o " (" \o Truncate7(Recv.Commit) \o ")"

\* String() has been called on an Info whose commit is present and longer
\* than 7 characters
C1_Witness ==
    ret.op = "String" /\ ~Absent(Recv.Commit) /\ Len(Recv.Commit) > 7

\* C2 as stated: for every commit c, ShortCommit returns c unchanged when c
\* has 7 characters or fewer and the first 7 characters of c when it is
\* longer.
C2_Original ==
    ret.op = "ShortCommit" => ret.val = Truncate7(Recv.Commit)

\* C2 amended: for every commit c other than the 7-character sentinel
\* "unknown", ShortCommit returns c unchanged when c has 7 characters or
\* fewer and the first 7 characters of c when it is longer; for "unknown"
\* it returns the empty string.
C2_ShortCommitTruncates ==
    ret.op = "ShortCommit" =>
        IF Recv.Commit = "unknown"
        THEN ret.val = ""
        ELSE ret.val = Truncate7(Recv.Commit)

\* ShortCommit() has been called on a commit of more than 7 characters
C2_Witness ==
    ret.op = "ShortCommit" /\ Len(Recv.Commit) > 7 /\ ret.val # Recv.Commit

\* C3: ShortCommit() returns the empty string exactly when the commit is
\* empty or "unknown"; for every present commit it returns a non-empty
\* prefix of the commit of length min(7, len(commit)).
C3_ShortCommitEmptyIffAbsent ==
    ret.op = "ShortCommit" =>
        /\ ret.val = "" <=> Absent(Recv.Commit)
        /\ ~Absent(Recv.Commit) =>
              /\ ret.val # ""
              /\ HasPrefix(Recv.Commit, ret.val)
              /\ Len(ret.val) = IF Len(Recv.Commit) < 7 THEN Len(Recv.Commit) ELSE 7

\* ShortCommit() has been called on the sentinel "unknown" and returned ""
C3_Witness ==
    ret.op = "ShortCommit" /\ Recv.Commit = "unknown" /\ ret.val = ""

\* C4 as stated: in the JSON of JSON()/JSONPretty() a commit or build_date
\* that is empty or "unknown", and a branch that is empty, never appears as
\* a key.
C4_AbsentNeverAKey ==
    ret.op \in {"JSON", "JSONPretty"} =>
        /\ Absent(Recv.Commit) => "commit" \notin ObjectKeys(ret.val)
        /\ Absent(Recv.BuildDate) => "build_date" \notin ObjectKeys(ret.val)
        /\ Recv.Branch = "" => "branch" \notin ObjectKeys(ret.val)

\* C9: Validate() returns an error if and only if version is the empty
\* string, whatever the other fields hold.
C9_ValidateIffEmptyVersion ==
    ret.op = "Validate" => (ret.val # "nil" <=> Recv.Version = "")

\* Validate() has accepted an Info whose version is set and whose commit,
\* build date and branch are all empty
C9_Witness ==
    /\ ret.op = "Validate" /\ ret.val = "nil"
    /\ Recv.Version # "" /\ Recv.Commit = "" /\ Recv.BuildDate = "" /\ Recv.Branch = ""

\* C10: IsDev() is true exactly when version is one of "", "dev" or
\* "development", compared case-sensitively.
C10_IsDevExact ==
    ret.op = "IsDev" => (ret.val <=> Recv.Version \in {"", "dev", "development"})

\* IsDev() has answered true for "development"
C10_Witness ==
    ret.op = "IsDev" /\ Recv.Version = "development" /\ ret.val = TRUE

(***************************************************************************)
(* Properties of the Builder, under SpecBuilder.                           *)
(***************************************************************************)
\* C8: an Info returned by Build() is immutable afterwards: while the caller
\* holds it, no call of WithVersion, WithCommit, WithBuildDate or WithBranch
\* on the builder changes any of its fields.
C8_BuiltInfoImmutable ==
    [][(info # NULL /\ info' = info) => heap'[info] = heap[info]]_vars

(***************************************************************************)
(* Properties of the HTTP layer, under SpecHTTP.                           *)
(***************************************************************************)
\* the constructors that take a header prefix
PrefixKinds ==
    {"Handler", "FiberHandler", "TextHandler", "FiberTextHandler",
     "Middleware", "FiberMiddleware"}

\* the Info the handler's closure captured
Served == heap[handler.Info]

\* the handler has served a request and its closure injects version headers
Injected == resp.status # 0 /\ handler.kind \in PrefixKinds /\ handler.IncludeHeaders

\* the response carries the header, looked up as Header.Get does
HasHeader(name) == CanonicalHeaderKey(name) \in DOMAIN resp.header

GetHeader(name) == resp.header[CanonicalHeaderKey(name)]

\* C5 as stated: for every constructor that takes a header prefix, an empty
\* HeaderPrefix is replaced by "X-", so that with IncludeHeaders set the
\* emitted header names are X-Version, X-Commit, X-Branch and X-Build-Date.
C5_EmptyPrefixBecomesXDash ==
    (handler.kind \in PrefixKinds /\ Len(args) > 0 /\ args[1].HeaderPrefix = "") =>
        /\ handler.HeaderPrefix = "X-"
        /\ Injected =>
              /\ "X-Version" \in DOMAIN resp.header
              /\ DOMAIN resp.header \subseteq
                    {"Content-Type", "X-Version", "X-Commit", "X-Branch", "X-Build-Date"}

\* C6: header injection writes {prefix}Version on every call, {prefix}Commit
\* with the value ShortCommit() if and only if the commit is neither empty
\* nor "unknown", {prefix}Branch if and only if branch is non-empty, and
\* {prefix}Build-Date with the build date verbatim if and only if it is
\* neither empty nor "unknown"; net/http and Fiber apply the same rule.
C6_HeaderInjection ==
    Injected =>
        LET p == handler.HeaderPrefix IN
        /\ HasHeader(p \o "Version") /\ GetHeader(p \o "Version") = Served.Version
        /\ HasHeader(p \o "Commit") <=> ~Absent(Served.Commit)
        /\ HasHeader(p \o "Commit") => GetHeader(p \o "Commit") = ShortCommit(Served)
        /\ HasHeader(p \o "Branch") <=> Served.Branch # ""
        /\ HasHeader(p \o "Branch") => GetHeader(p \o "Branch") = Served.Branch
        /\ HasHeader(p \o "Build-Date") <=> ~Absent(Served.BuildDate)
        /\ HasHeader(p \o "Build-Date") => GetHeader(p \o "Build-Date") = Served.BuildDate
        /\ setVersionHeaders(NoResponse, Served, p).header
              = setVersionHeadersFiber(FiberCtx, Served, p).header

\* a Fiber handler has injected the headers of an Info whose version is
\* empty, whose commit is "unknown" and whose branch and build date are set
C6_Witness ==
    /\ Injected /\ handler.kind = "FiberHandler"
    /\ Served.Version = "" /\ Served.Commit = "unknown"
    /\ Served.Branch # "" /\ ~Absent(Served.BuildDate)

\* C7 as stated: for every HandlerConfig, Pretty = true included,
\* FiberHandler and the net/http Handler produce the same response body,
\* indented by two spaces when Pretty is set and compact otherwise.
C7_SameBodyUnderBothToolkits ==
    (resp.status # 0 /\ handler.kind \in {"Handler", "FiberHandler"}) =>
        /\ HandlerFunc(handler, Served).body = FiberHandlerFunc(handler, Served).body
        /\ resp.body = IF handler.Pretty THEN MarshalIndent(Served) ELSE Marshal(Served)

C12_MapKeys ==
    ret.op = "Map" =>
        /\ {"version", "go_version", "platform", "compiler"} \subseteq DOMAIN ret.val
        /\ "commit" \in DOMAIN ret.val <=> ~Absent(Recv.Commit)
        /\ "branch" \in DOMAIN ret.val <=> Recv.Branch # ""
        /\ "build_date" \in DOMAIN ret.val <=> ~Absent(Recv.BuildDate)
        /\ DOMAIN ret.val \subseteq
              {"version", "go_version", "platform", "compiler",
               "commit", "branch", "build_date"}
        /\ ret.val["version"] = Recv.Version
        /\ ret.val["go_version"] = Recv.GoVersion
        /\ ret.val["platform"] = Recv.Platform
        /\ ret.val["compiler"] = Recv.Compiler
        /\ "commit" \in DOMAIN ret.val => ret.val["commit"] = Recv.Commit
        /\ "branch" \in DOMAIN ret.val => ret.val["branch"] = Recv.Branch
        /\ "build_date" \in DOMAIN ret.val => ret.val["build_date"] = Recv.BuildDate

\* Map() has been called on an Info whose commit is "unknown", whose build
\* date is empty and whose branch is set
C12_Witness ==
    /\ ret.op = "Map"
    /\ Recv.Commit = "unknown" /\ Recv.BuildDate = "" /\ Recv.Branch = "main"

\* C13 as stated: the set of keys of Map() equals the set of keys of the
\* JSON object produced by JSON(), and the values under each key agree.
C13_MapKeysEqualJSONKeys ==
    ret.op = "Map" =>
        /\ DOMAIN ret.val = ObjectKeys(JSON(Recv))
        /\ \A k \in DOMAIN ret.val \cap ObjectKeys(JSON(Recv)) :
              ret.val[k] = ObjectValue(JSON(Recv), k)

\* the lines of a text, each with its newline cut off; what follows the
\* last newline, when there is something, is one more line
RECURSIVE SplitLines(_)
SplitLines(s) ==
    IF s = "" THEN << >>
    ELSE LET ends == {k \in 1..Len(s) : CharAt(s, k) = "\n"}
         IN  IF ends = {} THEN <<s>>
             ELSE LET k == CHOOSE e \in ends : \A f \in ends : e <= f
                  IN  <<IF k = 1 THEN "" ELSE SubSeq(s, 1, k - 1)>>
                      \o (IF k = Len(s) THEN << >>
                          ELSE SplitLines(SubSeq(s, k + 1, Len(s))))

\* C14: Full() emits one labeled line per field in the order Version,
\* Commit, Branch, Built, Go version, Platform, Compiler: Version, Go
\* version, Platform and Compiler always, Commit and Built only when the
\* field is neither empty nor "unknown", Branch only when it is non-empty;
\* each value is the stored field verbatim (the full commit).
C14_FullLines ==
    ret.op = "Full" =>
        LET rows == << <<"Version:    ", Recv.Version, TRUE>>,
                       <<"Commit:     ", Recv.Commit, ~Absent(Recv.Commit)>>,
                       <<"Branch:     ", Recv.Branch, Recv.Branch # "">>,
                       <<"Built:      ", Recv.BuildDate, ~Absent(Recv.BuildDate)>>,
                       <<"Go version: ", Recv.GoVersion, TRUE>>,
                       <<"Platform:   ", Recv.Platform, TRUE>>,
                       <<"Compiler:   ", Recv.Compiler, TRUE>> >>
            shown == SelectSeq(rows, LAMBDA r : r[3])
            lines == SplitLines(ret.val)
        IN  /\ Len(lines) = Len(shown)
            /\ \A k \in 1..Len(shown) : lines[k] = shown[k][1] \o shown[k][2]
            /\ SubSeq(ret.val, Len(ret.val), Len(ret.val)) = "\n"

\* Full() has been called on an Info whose commit is longer than 7
\* characters, whose branch is set and whose build date is "unknown"
C14_Witness ==
    /\ ret.op = "Full"
    /\ Len(Recv.Commit) > 7 /\ ~Absent(Recv.Commit)
    /\ Recv.Branch = "main" /\ Recv.BuildDate = "unknown"

(***************************************************************************)
(* Properties of the handlers' responses, under SpecHTTP.                  *)
(***************************************************************************)
\* the constructor was called without an Info: no config, or a nil Info
InfoUnset == Len(args) = 0 \/ args[1].Info = NilInfo

\* the handler has served a request
HasServed == handler.kind # "none" /\ resp # NoResponse

C16_JSONHandlerResponse ==
    (HasServed /\ handler.kind = "Handler") =>
        /\ resp.status = 200
        /\ HasHeader("Content-Type") /\ GetHeader("Content-Type") = "application/json"
        /\ ~InfoUnset => Served = args[1].Info
        /\ resp.body = IF handler.Pretty THEN JSONPretty(Served) ELSE JSON(Served)
        /\ \A h \in BOOLEAN :
              HandlerFunc([handler EXCEPT !.IncludeHeaders = h], Served).body = resp.body

\* the net/http JSON handler has served a configured Info indented, with
\* the version headers injected
C16_Witness ==
    /\ HasServed /\ handler.kind = "Handler" /\ ~InfoUnset
    /\ handler.Pretty /\ handler.IncludeHeaders
    /\ Served.Commit = "abc1234567890" /\ Served.BuildDate = "unknown"

\* C17: for every request, the text handler (net/http and Fiber) responds
\* with status 200, Content-Type text/plain; charset=utf-8 and a body equal
\* to Full() of the configured Info verbatim.
C17_TextHandlerResponse ==
    (HasServed /\ handler.kind \in {"TextHandler", "FiberTextHandler"}) =>
        /\ resp.status = 200
        /\ HasHeader("Content-Type")
        /\ GetHeader("Content-Type") = "text/plain; charset=utf-8"
        /\ ~InfoUnset => Served = args[1].Info
        /\ resp.body = Full(Served)

\* the Fiber text handler has served a configured Info with a commit and a
\* branch, with the version headers injected
C17_Witness ==
    /\ HasServed /\ handler.kind = "FiberTextHandler" /\ ~InfoUnset
    /\ handler.IncludeHeaders
    /\ Served.Commit = "abc1234567890" /\ Served.Branch = "main"

\* C18: the simple handler takes no configuration and on every request
\* responds 200 with a plain-text body equal to Default().String() computed
\* from the values the package variables Version and Commit hold when that
\* request is handled.
C18_SimpleHandlerResponse ==
    /\ [](handler.kind \in {"SimpleHandler", "FiberSimpleHandler"} =>
            args = << >> /\ handler.Info = NULL)
    /\ [][(handler.kind \in {"SimpleHandler", "FiberSimpleHandler"}
              /\ (req' # req \/ resp' # resp)) =>
            /\ resp'.status = 200
            /\ resp'.header = ("Content-Type" :> "text/plain; charset=utf-8")
            /\ resp'.body = String(Default)
            /\ resp'.body = IF Absent(Commit) THEN Version
                            ELSE Version \o " (" \o Truncate7(Commit) \o ")"]_vars

\* a simple handler has answered with the version and the short commit
\* assigned to the package variables after it was constructed
C18_Witness ==
    /\ handler.kind = "SimpleHandler"
    /\ resp.status = 200 /\ resp.body = "2.0.0 (xyz789a)"

\* C19: for every request, the middleware first writes the configured
\* version headers to the response and then invokes the wrapped handler
\* exactly once with the same unmodified request and response writer; it
\* never short-circuits the chain and never writes a status or body itself.
\* On the log of the response writer: the header writes of the injection
\* come first, then the one invocation with the request that was served,
\* then nothing but what the wrapped handler itself writes.
C19_MiddlewareDelegates ==
    (HasServed /\ handler.kind \in {"Middleware", "FiberMiddleware"}) =>
        LET ev    == resp.events
            calls == {k \in 1..Len(ev) : ev[k][1] \in {"ServeHTTP", "Next"}}
            inner == IF handler.kind = "Middleware"
                     THEN << <<"WriteHeader", 200>>, <<"Write", "OK">> >>
                     ELSE << <<"Write", "OK">> >>
        IN  /\ Cardinality(calls) = 1
            /\ \A k \in calls :
                  /\ ev[k][2] = req
                  /\ k > 1
                  /\ \A j \in 1..(k - 1) : ev[j][1] = "Set"
                  /\ SubSeq(ev, 1, k - 1)
                        = (IF handler.kind = "Middleware"
                           THEN setVersionHeaders(NoResponse, Served, handler.HeaderPrefix)
                           ELSE setVersionHeadersFiber(FiberCtx, Served, handler.HeaderPrefix)).events
                  /\ SubSeq(ev, k + 1, Len(ev)) = inner
            /\ resp.body = "OK" /\ resp.status = 200

\* a net/http middleware has injected four headers and passed a POST
\* request on to the handler it wraps
C19_Witness ==
    /\ HasServed /\ handler.kind = "Middleware"
    /\ req = [Method |-> "POST", Path |-> "/version"]
    /\ Len(resp.events) = 7
    /\ resp.events[5] = <<"ServeHTTP", req>>

(***************************************************************************)
(* Properties of the Builder, under SpecBuilder.                           *)
(***************************************************************************)
\* the calls that are setters of the Builder
Setters == {"WithVersion", "WithCommit", "WithBuildDate", "WithBranch"}

\* the Info i with the field that the setter op assigns replaced by v
WithField(i, op, v) ==
    CASE op = "WithVersion"   -> [i EXCEPT !.Version = v]
      [] op = "WithCommit"    -> [i EXCEPT !.Commit = v]
      [] op = "WithBuildDate" -> [i EXCEPT !.BuildDate = v]
      [] op = "WithBranch"    -> [i EXCEPT !.Branch = v]

\* C20: every With* setter returns the same builder it was called on, and
\* NewBuilder().WithVersion(v).WithCommit(c).WithBuildDate(d).WithBranch(b)
\* .Build() yields an Info equal field by field to NewWithBranch(v, c, d, b),
\* for the setters applied in any order and with the last value winning when
\* a setter is called more than once; the builder performs no validation.
\* Step by step: a new builder holds NewWithBranch("", "", "", ""); a setter
\* returns its builder and replaces exactly its own field by its argument;
\* Build changes no field and yields what the builder holds, whatever the
\* fields are, which is NewWithBranch of the four values set last.
C20_BuilderEqualsNewWithBranch ==
    /\ [][ret'.op = "NewBuilder" =>
            /\ builder' = ret'.val
            /\ heap'[builder'] = NewWithBranch("", "", "", "")]_vars
    /\ [][ret'.op \in Setters =>
            /\ ret'.val = builder /\ builder' = builder
            /\ heap'[builder] = WithField(heap[builder], ret'.op, ret'.arg)]_vars
    /\ [][ret'.op = "Build" =>
            /\ ret'.val = builder /\ builder' = builder /\ info' = builder
            /\ heap'[builder] = heap[builder]]_vars
    /\ [](ret.op = "Build" =>
            heap[info] = NewWithBranch(heap[info].Version, heap[info].Commit,
                                       heap[info].BuildDate, heap[info].Branch))

\* Build has yielded an Info whose version was set twice, whose commit is
\* "unknown", and whose branch and build date were set
C20_Witness ==
    /\ ret.op = "Build"
    /\ heap[info] = NewWithBranch("2.0.0", "unknown", "2025-01-01T00:00:00Z", "main")

\* Build has yielded an Info that Validate rejects
C20_NoValidation ==
    /\ ret.op = "Build"
    /\ Validate(heap[info]) # "nil"

(***************************************************************************)
(* Properties of BuildTimestamp, under SpecStamp.                          *)
(***************************************************************************)
\* the accepted formats in the order they are tried
AcceptedFormats ==
    <<RFC3339, "2006-01-02 15:04:05", "2006-01-02", RFC1123, RFC1123Z>>

\* C23: BuildTimestamp() never reports an error: its result is always a
\* timestamp; it is the zero timestamp when buildDate is empty, is "unknown"
\* or matches none of the accepted formats, and otherwise the result of the
\* first accepted format, tried in the order RFC3339, space-separated
\* date-time, bare date, RFC1123, RFC1123 with numeric zone, that parses
\* buildDate; for "2025-01-01" that is midnight of that day, not zero.
C23_BuildTimestamp ==
    ret.op = "BuildTimestamp" =>
        LET d        == Recv.BuildDate
            t        == ret.val
            accepted == {j \in 1..Len(AcceptedFormats) : Parse(AcceptedFormats[j], d).ok}
            first    == CHOOSE j \in accepted : \A k \in accepted : j <= k
        IN  /\ DOMAIN t = {"day", "sec", "nsec", "offset"}
            /\ t.sec \in 0..86399 /\ t.nsec \in 0..999999999
            /\ (Absent(d) \/ accepted = {}) => t = ZeroTime
            /\ (~Absent(d) /\ accepted # {}) => t = Parse(AcceptedFormats[first], d).t
            /\ d = "2025-01-01" =>
                  ~IsZero(t) /\ t = [day |-> 739251, sec |-> 0, nsec |-> 0, offset |-> 0]
            /\ d \in {"2025-01-01T12:00:00Z", "2025-01-01 12:00:00"} =>
                  t = [day |-> 739251, sec |-> 43200, nsec |-> 0, offset |-> 0]
            /\ d = "2025-01-01T12:00:00+08:00" =>
                  t = [day |-> 739251, sec |-> 14400, nsec |-> 0, offset |-> 28800]
            /\ d \in {"not-a-date", "2025-02-29", "2025-13-01", "2025-01-01x"} => IsZero(t)

\* BuildTimestamp() has returned a non-zero timestamp for the bare date
\* "2025-01-01", which only the third format accepts
C23_Witness ==
    /\ ret.op = "BuildTimestamp"
    /\ Recv.BuildDate = "2025-01-01"
    /\ ~Parse(RFC3339, Recv.BuildDate).ok
    /\ ~IsZero(ret.val)

(***************************************************************************)
(* Frame properties, under SpecFrame.                                      *)
(***************************************************************************)
\* C21: no Info method (String, Full, JSON, JSONPretty, Map, Validate,
\* IsDev, BuildTimestamp, ShortCommit) and no handler, middleware or
\* header-injection call changes any field of the Info it operates on or
\* any of the package variables Version, Commit, BuildDate, Branch: over
\* every step of a caller that calls the methods, builds a handler over the
\* same Info and lets it serve, the Info and the variables stay as they are.
C21_ReadOnly ==
    [][/\ <<Version, Commit, BuildDate, Branch>>' = <<Version, Commit, BuildDate, Branch>>
       /\ info' = info
       /\ heap'[info] = heap[info]
       /\ handler.kind \in PrefixKinds =>
             (handler'.Info = handler.Info /\ heap'[handler.Info] = heap[handler.Info])]_vars

\* a middleware built over the caller's Info has injected its headers, and
\* the caller has then called BuildTimestamp() on that Info
C21_Witness ==
    /\ handler.kind = "Middleware" /\ handler.Info = info
    /\ resp.status = 200 /\ Len(resp.events) > 3
    /\ ret.op = "BuildTimestamp"

(***************************************************************************)
(* Properties of Default(), under SpecDefault.                             *)
(***************************************************************************)
\* the package variables
PackageVars == <<Version, Commit, BuildDate, Branch>>

\* C22: Default() returns a fresh Info whose version, commit, buildDate and
\* branch equal the current values of the package variables Version,
\* Commit, BuildDate and Branch at the time of the call; with the variables
\* never overwritten it yields version "dev", commit "unknown", buildDate
\* "unknown" and empty branch, which passes Validate(), is a development
\* build, and displays as "dev".
C22_DefaultReadsPackageVars ==
    /\ [][(ret'.op = "Default" /\ PackageVars' = PackageVars) =>
            /\ info' = ret'.val
            /\ info' \notin DOMAIN heap
            /\ heap'[info'].Version = Version
            /\ heap'[info'].Commit = Commit
            /\ heap'[info'].BuildDate = BuildDate
            /\ heap'[info'].Branch = Branch
            /\ PackageVars = <<"dev", "unknown", "unknown", "">> =>
                  /\ heap'[info'].Version = "dev" /\ heap'[info'].Commit = "unknown"
                  /\ heap'[info'].BuildDate = "unknown" /\ heap'[info'].Branch = ""]_vars
    /\ []((info # NULL /\ ret.op = "Validate" /\ Recv.Version = "dev") => ret.val = "nil")
    /\ []((info # NULL /\ ret.op = "IsDev" /\ Recv.Version = "dev") => ret.val = TRUE)
    /\ []((info # NULL /\ ret.op = "String" /\ Recv.Version = "dev" /\ Recv.Commit = "unknown")
            => ret.val = "dev")

\* Default() has returned an Info with the values assigned to the four
\* package variables, at another address than the Info the caller held
C22_Witness ==
    /\ ret.op = "Default" /\ info = 2
    /\ PackageVars = <<"2.0.0", "xyz789abc", "2025-06-15T12:00:00Z", "develop">>
    /\ heap[info] = NewWithBranch("2.0.0", "xyz789abc", "2025-06-15T12:00:00Z", "develop")

\* with the package variables as declared, the Info from Default() has
\* displayed as "dev"
C22_UntouchedDisplaysDev ==
    /\ ret.op = "String" /\ ret.val = "dev"
    /\ PackageVars = <<"dev", "unknown", "unknown", "">>
    /\ Recv = NewWithBranch("dev", "unknown", "unknown", "")

(***************************************************************************)
(* Properties of capture and of header order, under SpecHTTP.              *)
(***************************************************************************)
\* C26: Handler, TextHandler, FiberHandler, FiberTextHandler, Middleware and
\* FiberMiddleware built without an Info capture Default() once, when the
\* handler is constructed: after any later sequence of assignments to the
\* package variables their responses still show the values held at
\* construction time, whereas SimpleHandler and FiberSimpleHandler re-read
\* the package variables on every request and show the latest values.
C26_CapturedAtConstruction ==
    /\ [][(handler = NoHandler /\ handler'.kind \in PrefixKinds /\ InfoUnset')
            => heap'[handler'.Info] = Default]_vars
    /\ [][handler.kind \in PrefixKinds
            => (handler' = handler /\ heap'[handler.Info] = heap[handler.Info])]_vars
    /\ [][(handler.kind \in PrefixKinds /\ InfoUnset /\ (req' # req \/ resp' # resp)) =>
            LET p == handler.HeaderPrefix
                h == resp'.header
            IN  /\ handler.kind \in {"Handler", "FiberHandler"} =>
                      Unmarshal(resp'.body) = Served
                /\ handler.kind \in {"TextHandler", "FiberTextHandler"} =>
                      resp'.body = Full(Served)
                /\ handler.kind \in {"Middleware", "FiberMiddleware"} =>
                      /\ h[CanonicalHeaderKey(p \o "Version")] = Served.Version
                      /\ CanonicalHeaderKey(p \o "Branch") \in DOMAIN h <=> Served.Branch # ""
                      /\ Served.Branch # "" =>
                            h[CanonicalHeaderKey(p \o "Branch")] = Served.Branch]_vars
    /\ [][(handler.kind \in {"SimpleHandler", "FiberSimpleHandler"}
              /\ (req' # req \/ resp' # resp)) =>
            resp'.body = String(NewWithBranch(Version, Commit, BuildDate, Branch))]_vars

\* a text handler built without an Info, when Version was "dev", has served
\* "dev" while the package variable Version is "2.0.0"
C26_Witness ==
    /\ HasServed /\ handler.kind = "TextHandler" /\ InfoUnset
    /\ Served.Version = "dev" /\ Version = "2.0.0"
    /\ HasPrefix(resp.body, "Version:    dev\n")

\* C27: in the JSON and text handlers, version headers are emitted if and
\* only if IncludeHeaders is set, and when emitted they (together with
\* Content-Type) are written before the status line and the body on every
\* request, so that they are part of the delivered response; with
\* IncludeHeaders unset the response carries no {prefix}Version,
\* {prefix}Commit, {prefix}Branch or {prefix}Build-Date header.
C27_HeadersBeforeBody ==
    (HasServed /\ handler.kind \in {"Handler", "FiberHandler", "TextHandler", "FiberTextHandler"}) =>
        LET p     == handler.HeaderPrefix
            names == {CanonicalHeaderKey(p \o n) :
                         n \in {"Version", "Commit", "Branch", "Build-Date"}}
            ev    == resp.events
            out   == {k \in 1..Len(ev) : ev[k][1] \in {"WriteHeader", "Write"}}
            sets  == {k \in 1..Len(ev) : ev[k][1] = "Set" /\ \A o \in out : k < o}
        IN  /\ out # {}
            /\ handler.IncludeHeaders <=> (DOMAIN resp.header \cap names # {})
            /\ handler.IncludeHeaders => CanonicalHeaderKey(p \o "Version") \in DOMAIN resp.header
            /\ ~handler.IncludeHeaders => DOMAIN resp.header = {"Content-Type"}
            /\ \A h \in DOMAIN resp.header :
                  \E k \in sets : ev[k][2] = h /\ ev[k][3] = resp.header[h]

\* a text handler has delivered Content-Type and the four version headers
C27_Witness ==
    /\ HasServed /\ handler.kind = "TextHandler" /\ handler.IncludeHeaders
    /\ Cardinality(DOMAIN resp.header) = 5
    /\ resp.events[Len(resp.events)][1] = "Write"

C25_DoneBesideRunning ==
    /\ inflight[1].state = "done" /\ inflight[1].w = Respond(inflight[1].req)
    /\ inflight[2].state = "running" /\ inflight[2].n = 1

====
